---- MODULE Spec2Model ----
(***************************************************************************)
(* A model of the crawl-and-download engine of vcd: the dispatch boundary  *)
(* (vcd/_threading.py), the coordinator (vcd/__init__.py) and the Link     *)
(* state machine with its save path (vcd/links.py, vcd/utils.py).          *)
(*                                                                         *)
(* Seven specifications share the module's variables:                      *)
(*   SpecPool     the worker pool over the shared queue, each unit's       *)
(*                processing reduced to its queue.put calls and outcome;   *)
(*   SpecLogin    find_subjects over the courses the portal lists: the     *)
(*                marker test, the filter, the sort and the puts;          *)
(*   Spec         one worker processing Resources in full (request,        *)
(*                content-type dispatch, discovery, save), one action per  *)
(*                download();                                              *)
(*   SpecListing  one worker processing Folders, Forums and Deliveries;    *)
(*   SpecFilepath the operations of one Link on its filepath, in any       *)
(*                order;                                                   *)
(*   SpecRequest  make_request, one step per GET;                          *)
(*   SpecSave     the workers inside save_response_content, one step per   *)
(*                statement group, for the interleavings on the cache.     *)
(***************************************************************************)
EXTENDS Integers, Sequences, FiniteSets, TLC

VARIABLES
    \* --- the pool (SpecPool, SpecLogin) ---
    queue,              \* queue.Queue: the FIFO of work units
    unfinished_tasks,   \* queue.Queue.unfinished_tasks: the pending count
    worker,             \* per worker: pc, the unit it holds, its puts so far,
                        \* and the exception that left run(), if one did;
                        \* in SpecSave: pc, the Link and the response it saves
    coord,              \* the coordinator's position in start()/find_subjects()
    subjects,           \* subjects assembled by find_subjects, not yet put
    courses,            \* history: the courses the portal listed, the Subjects
                        \* assembled from them and the names put so far
    dispatched,         \* history: unit id -> number of times run() got it
    created,            \* number of units ever enqueued
    \* --- the Link state machine (Spec, SpecListing, SpecSave) ---
    cur,                \* the Link whose download() is in progress, if any
    REAL_FILE_CACHE,    \* filecache.REAL_FILE_CACHE: filepath -> length
    disk,               \* the files written: filepath -> bytes of the body
    dirs,               \* the directories made
    downloads,          \* downloads.log, the records appended so far
    results,            \* what Results.print_new / print_updated reported
    dumps,              \* number of diagnostic files parse_html wrote
    forums_subfolders,  \* Options.FORUMS_SUBFOLDERS
    last                \* history: the last download() attempt, its response,
                        \* its effects, the shared state it started from and
                        \* the lengths of the responses saved before it

poolVars == <<queue, unfinished_tasks, worker, coord, subjects, courses, dispatched,
              created>>

poolVarsButWorker == <<queue, unfinished_tasks, coord, subjects, courses, dispatched,
                       created>>

linkVars == <<cur, REAL_FILE_CACHE, disk, dirs, downloads, results, dumps,
              forums_subfolders, last>>

vars == <<poolVars, linkVars>>

----------------------------------------------------------------------------
(***************************************************************************)
(* Bounds of the model.                                                    *)
(***************************************************************************)
NWorkers == 2
MaxUnits == 4
MaxSubjects == 2
MaxSeeds == 2
MaxListingSeeds == 1
MaxLinks == 3
MaxListingLinks == 4
MaxHops == 1
MaxItems == 3
MaxForumItems == 2
MaxBody == 2

Workers == 1..NWorkers

----------------------------------------------------------------------------
(***************************************************************************)
(* Strings are sequences of tokens; a substring is a contiguous            *)
(* subsequence.                                                            *)
(***************************************************************************)
Contains(s, pat) ==
    \E i \in 1..(Len(s) - Len(pat) + 1) : SubSeq(s, i, i + Len(pat) - 1) = pat

\* The concatenation of a sequence of sequences, left to right.
Flatten(ss) ==
    LET F[i \in 0..Len(ss)] == IF i = 0 THEN <<>> ELSE F[i - 1] \o ss[i]
    IN  F[Len(ss)]

\* The position of the last occurrence of token t in s, 0 when there is none.
LastIndex(s, t) ==
    LET I == {i \in 1..Len(s) : s[i] = t}
    IN  IF I = {} THEN 0 ELSE CHOOSE i \in I : \A j \in I : j <= i

\* str.strip(chars), on the left and on the right.
LStrip(s, chars) ==
    LET K == {i \in 1..Len(s) : s[i] \notin chars}
    IN  IF K = {} THEN <<>>
        ELSE SubSeq(s, CHOOSE i \in K : \A j \in K : i <= j, Len(s))

RStrip(s, chars) ==
    LET K == {i \in 1..Len(s) : s[i] \notin chars}
    IN  IF K = {} THEN <<>>
        ELSE SubSeq(s, 1, CHOOSE i \in K : \A j \in K : j <= i)

\* str.replace(old, new) for a one-token old.
Replace(s, old, new) ==
    Flatten([i \in 1..Len(s) |-> IF s[i] = old THEN new ELSE <<s[i]>>])

\* "_".join(s.split()): runs of whitespace become one "_", none at the ends.
JoinSplit(s) ==
    Flatten([i \in 1..Len(s) |->
        IF s[i] = " " THEN <<>>
        ELSE IF i > 1 /\ s[i - 1] = " " /\ \E j \in 1..(i - 1) : s[j] # " "
        THEN <<"_", s[i]>>
        ELSE <<s[i]>>])

\* The tokens that are not words of [A-Za-z0-9-].
Illegal == {" ", "/", "<", ">", "?", "=", ":", "\""}

\* normalize("NFKD", s).encode("ascii", "ignore"): an accented letter keeps
\* its base letter.
Ascii(t) == IF t = "á" THEN "a" ELSE t

\* str.lower() of one token.
Lower(t) ==
    CASE t = "PDF" -> "pdf"
      [] t = "A" -> "a"
      [] t = "Algebra" -> "algebra"
      [] t = "Calculo" -> "calculo"
      [] t = "Grado" -> "grado"
      [] t = "Post" -> "post"
      [] OTHER -> t

SeqsUpTo(S, n) == UNION {[1..k -> S] : k \in 0..n}

MapSeq(s, Op(_)) == [i \in 1..Len(s) |-> Op(s[i])]

\* utils.secure_filename (os.name is posix: altsep is None and the device
\* names are not prefixed).
secure_filename(filename) ==
    LET ascii == MapSeq(filename, Ascii)
        nosep == Replace(ascii, "/", <<" ">>)
        joined == JoinSplit(nosep)
        kept == SelectSeq(joined, LAMBDA t : t \notin Illegal)
    IN  RStrip(LStrip(kept, {".", "_"}), {".", "_"})

\* BaseLink._process_filename.
Process_filename(filepath) ==
    Replace(Replace(filepath, ">", <<" ", "mayor", " ", "que", " ">>),
            "<", <<" ", "menor", " ", "que", " ">>)

\* BaseLink._filename_to_ext.
Filename_to_ext(filename) ==
    IF LastIndex(filename, ".") = 0 THEN <<"ukn">>
    ELSE MapSeq(SubSeq(filename, LastIndex(filename, ".") + 1, Len(filename)), Lower)

\* os.path.basename.
Basename(path) == SubSeq(path, LastIndex(path, "/") + 1, Len(path))

\* os.path.splitext(p)[0]: the extension starts at the last dot of the last
\* component, unless only dots precede it there.
SplitextRoot(p) ==
    LET dot == LastIndex(p, ".")
        sep == LastIndex(p, "/")
    IN  IF dot > sep /\ \E i \in (sep + 1)..(dot - 1) : p[i] # "."
        THEN SubSeq(p, 1, dot - 1)
        ELSE p

\* str.strip() of a name.
Strip(s) == RStrip(LStrip(s, {" "}), {" "})

\* The URL shapes a Forum link can carry.
UrlView == <<"mod", "/", "forum", "/", "view", ".", "php", "?", "id", "=", "1">>
UrlDiscuss == <<"mod", "/", "forum", "/", "discuss", ".", "php", "?", "d", "=", "2">>
UrlBoth == <<"mod", "/", "forum", "/", "discuss", ".", "php", "?", "back", "=", "view", ".", "php">>
UrlOther == <<"mod", "/", "forum", "/", "search", ".", "php">>
UrlFile == <<"pluginfile", ".", "php", "/", "a", ".", "pdf">>

ForumUrls == {UrlView, UrlDiscuss, UrlBoth, UrlOther}

\* A branch that tests discuss.php before view.php.
ForumBranch_discussFirst(url) ==
    IF Contains(url, <<"discuss", ".", "php">>) THEN "discuss"
    ELSE IF Contains(url, <<"view", ".", "php">>) THEN "view"
    ELSE "unknown"

\* Forum.download, the branch on the URL shape (if / elif / else).
ForumBranch(url) ==
    IF Contains(url, <<"view", ".", "php">>) THEN "view"
    ELSE IF Contains(url, <<"discuss", ".", "php">>) THEN "discuss"
    ELSE "unknown"

----------------------------------------------------------------------------
(***************************************************************************)
(* Links, responses and paths.  A header is <<>> when the response does    *)
(* not carry it and <<value>> when it does.  A path is the sequence of its *)
(* components.                                                             *)
(***************************************************************************)
RootFolder == <<"root">>
SubjectName == <<"S">>
SubjectFolder == <<"S">>

\* A Link as BaseLink.__init__ leaves it: the name stripped, no subfolders,
\* no filepath.
NewLink(kind, name, url) ==
    [kind |-> kind, name |-> Strip(name), url |-> url, subfolders |-> <<>>,
     filepath |-> <<>>]

\* self.response is None: the Link has made no request yet.  The model
\* writes it as a response of status 0.
ResponseIsNone(resp) == resp.status = 0

\* BaseLink.content_type: the header, or None.
Content_type(resp) == resp.ctype

\* BaseLink.get_header_length.
Get_header_length(resp) == IF resp.clen # <<>> THEN resp.clen[1] ELSE resp.body

\* Options.FILENAME_PATTERN.search(header).group(1): the file name that
\* follows `filename=`, without its quotes; <<>> when the pattern does not
\* match, else <<name>>.
TakeName(s) ==
    LET K == {i \in 1..Len(s) : s[i] \in {"\"", ";"}}
    IN  IF K = {} THEN s
        ELSE SubSeq(s, 1, (CHOOSE i \in K : \A j \in K : i <= j) - 1)

Filename_pattern(header) ==
    LET hits == {i \in 1..(Len(header) - 1) : header[i] = "filename" /\ header[i + 1] = "="}
    IN  IF hits = {} THEN <<>>
        ELSE LET i == CHOOSE j \in hits : \A k \in hits : j <= k
                 rest == SubSeq(header, i + 2, Len(header))
                 name == TakeName(IF rest # <<>> /\ Head(rest) = "\"" THEN Tail(rest) ELSE rest)
             IN  IF name = <<>> THEN <<>> ELSE <<name>>

\* An extension taken from the content type of a pdf, whatever the names.
Get_ext_from_response_pdf(link, resp) == [exc |-> "none", ext |-> <<"pdf">>]

\* BaseLink._get_ext_from_response: [exc, ext].  The name comes from the
\* Content-Disposition header (unidecode removes its accents); a header
\* the pattern does not match is an AttributeError (None.group); without
\* the header (KeyError) it is the basename of the url.
Get_ext_from_response(link, resp) ==
    IF resp.cdisp # <<>>
    THEN LET m == Filename_pattern(MapSeq(resp.cdisp[1], Ascii))
         IN  IF m = <<>> THEN [exc |-> "AttributeError", ext |-> <<>>]
             ELSE [exc |-> "none", ext |-> Filename_to_ext(m[1])]
    ELSE LET ext == Filename_to_ext(Basename(link.url))
         IN  [exc |-> "none", ext |-> IF ext = <<>> THEN <<"ukn">> ELSE ext]

\* The length of a path as the file system counts it: its tokens and the
\* separators between its components.
PathLen(path) ==
    LET F[i \in 0..Len(path)] == IF i = 0 THEN 0 ELSE F[i - 1] + Len(path[i]) + 1
    IN  F[Len(path)]

\* The longest path the file system takes.
PathLimit == 12

\* sha1(url).hexdigest(): one digest per url.
Sha1(url) == <<"sha1">> \o url

\* Alias.real_to_alias(id, real): the real path when the file system takes
\* it, else the alias path named after the digest of the url.
Real_to_alias(id, real) ==
    IF PathLen(real) <= PathLimit THEN real ELSE <<RootFolder, id>>

\* The path autoset_filepath builds before it is aliased: os.path.join and
\* os.path.normpath drop the empty components.
Real_filepath(link, ext) ==
    LET filename == secure_filename(Process_filename(link.name) \o <<".">> \o ext)
    IN  SelectSeq(<<RootFolder, SubjectFolder>> \o link.subfolders \o <<filename>>,
                  LAMBDA c : c # <<>>)

\* os.path.dirname and os.path.basename of a path.
Dirname(path) == SubSeq(path, 1, Len(path) - 1)
PathBasename(path) == path[Len(path)]

\* A resolution that keys the alias by the name of the Link.
Autoset_filepath_byName(link, resp) ==
    LET Set(e) ==
            IF e.exc # "none" THEN [exc |-> e.exc, link |-> link]
            ELSE [exc |-> "none",
                  link |-> [link EXCEPT !.filepath =
                              <<Real_to_alias(Sha1(link.name), Real_filepath(link, e.ext))>>]]
    IN  IF link.filepath # <<>> THEN [exc |-> "none", link |-> link]
        ELSE Set(Get_ext_from_response(link, resp))

\* A resolution that does not look whether the filepath is already set.
Autoset_filepath_again(link, resp) ==
    LET Set(e) ==
            IF e.exc # "none" THEN [exc |-> e.exc, link |-> link]
            ELSE [exc |-> "none",
                  link |-> [link EXCEPT !.filepath =
                              <<Real_to_alias(Sha1(link.url), Real_filepath(link, e.ext))>>]]
    IN  IF ResponseIsNone(resp) THEN [exc |-> "RuntimeError", link |-> link]
        ELSE Set(Get_ext_from_response(link, resp))

\* BaseLink.autoset_filepath: [exc, link].  A filepath that is set is kept;
\* without a response the resolution raises RuntimeError.
Autoset_filepath(link, resp) ==
    LET Set(e) ==
            IF e.exc # "none" THEN [exc |-> e.exc, link |-> link]
            ELSE [exc |-> "none",
                  link |-> [link EXCEPT !.filepath =
                              <<Real_to_alias(Sha1(link.url), Real_filepath(link, e.ext))>>]]
    IN  IF link.filepath # <<>> THEN [exc |-> "none", link |-> link]
        ELSE IF ResponseIsNone(resp) THEN [exc |-> "RuntimeError", link |-> link]
        ELSE Set(Get_ext_from_response(link, resp))

\* BaseLink.create_subfolder: the subject folder, the filepath resolved when
\* it is not set, and the directory of the filepath made: [exc, link, dirs].
Create_subfolder(link, resp) ==
    LET Made(a) ==
            IF a.exc # "none"
            THEN [exc |-> a.exc, link |-> a.link, dirs |-> {<<RootFolder, SubjectFolder>>}]
            ELSE [exc |-> "none", link |-> a.link,
                  dirs |-> {<<RootFolder, SubjectFolder>>, Dirname(a.link.filepath[1])}]
    IN  Made(Autoset_filepath(link, resp))

(***************************************************************************)
(* The save path, BaseLink.save_response_content.                          *)
(***************************************************************************)
\* Lines 222-235, the test of the cache: "unchanged", "updated" or "new".
SaveDecision(cache, path, resp) ==
    IF path \in DOMAIN cache
    THEN (IF cache[path] = Get_header_length(resp) THEN "unchanged" ELSE "updated")
    ELSE "new"

\* Line 234, REAL_FILE_CACHE[self.filepath] = len(self.response.content).
CacheSet(cache, path, resp) ==
    [q \in DOMAIN cache \cup {path} |-> IF q = path THEN resp.body ELSE cache[q]]

\* Lines 222-235, the cache after the test: only a new path is entered,
\* with the byte count of the body.
CacheAfter(cache, path, resp) ==
    IF path \in DOMAIN cache THEN cache ELSE CacheSet(cache, path, resp)

\* A save that appends its record whether or not it wrote the file.
Save_response_content_recordsAll(link, resp, cache, denied) ==
    LET Save(a, path, d) ==
            [exc |-> "none", link |-> a.link, decision |-> d,
             cache |-> CacheAfter(cache, path, resp),
             dirs |-> {<<RootFolder, SubjectFolder>>, Dirname(path)},
             denied |-> d # "unchanged" /\ denied,
             wrote |-> d # "unchanged" /\ ~denied,
             record |-> <<[subject |-> SubjectName, file |-> PathBasename(path)]>>]
        Resolved(a) ==
            IF a.exc # "none"
            THEN [exc |-> a.exc, link |-> link, decision |-> "none", cache |-> cache,
                  dirs |-> {}, denied |-> FALSE, wrote |-> FALSE, record |-> <<>>]
            ELSE Save(a, a.link.filepath[1], SaveDecision(cache, a.link.filepath[1], resp))
    IN  Resolved(Autoset_filepath(link, resp))

\* The whole of save_response_content on the cache `cache`, the file system
\* denying the write when `denied`:
\* [exc, link, decision, cache, dirs, denied, wrote, record], where denied
\* says that open() raised the PermissionError the handler catches.
Save_response_content(link, resp, cache, denied) ==
    LET Save(a, path, d) ==
            [exc |-> "none", link |-> a.link, decision |-> d,
             cache |-> CacheAfter(cache, path, resp),
             dirs |-> {<<RootFolder, SubjectFolder>>, Dirname(path)},
             denied |-> d # "unchanged" /\ denied,
             wrote |-> d # "unchanged" /\ ~denied,
             record |-> IF d # "unchanged" /\ ~denied
                        THEN <<[subject |-> SubjectName, file |-> PathBasename(path)]>>
                        ELSE <<>>]
        Resolved(a) ==
            IF a.exc # "none"
            THEN [exc |-> a.exc, link |-> link, decision |-> "none", cache |-> cache,
                  dirs |-> {}, denied |-> FALSE, wrote |-> FALSE, record |-> <<>>]
            ELSE Save(a, a.link.filepath[1], SaveDecision(cache, a.link.filepath[1], resp))
    IN  Resolved(Autoset_filepath(link, resp))

(***************************************************************************)
(* Resource.download and Resource.parse_html.                              *)
(***************************************************************************)
\* The content types Resource.download saves, in the order it tests them,
\* each with the resource type it sets.
SaveTypes ==
    << [marker |-> <<"application/pdf">>, type |-> "pdf"],
       [marker |-> <<"officedocument.wordprocessingml.document">>, type |-> "word"],
       [marker |-> <<"officedocument.spreadsheetml.sheet">>, type |-> "excel"],
       [marker |-> <<"officedocument.presentationml.slideshow">>, type |-> "power-point"],
       [marker |-> <<"presentationml.presentation">>, type |-> "power-point"],
       [marker |-> <<"powerpoint">>, type |-> "power-point"],
       [marker |-> <<"msword">>, type |-> "word"],
       [marker |-> <<"application/zip">>, type |-> "zip"],
       [marker |-> <<"application/g-zip">>, type |-> "gzip"],
       [marker |-> <<"application/x-7z-compressed">>, type |-> "7zip"],
       [marker |-> <<"x-rar-compressed">>, type |-> "rar"],
       [marker |-> <<"text/plain">>, type |-> "plain"],
       [marker |-> <<"application/json">>, type |-> "json"],
       [marker |-> <<"application/octet-stream">>, type |-> "octect-stream"],
       [marker |-> <<"image/jpeg">>, type |-> "jpeg"],
       [marker |-> <<"image/png">>, type |-> "png"],
       [marker |-> <<"video/mp4">>, type |-> "mp4"],
       [marker |-> <<"video/x-ms-wm">>, type |-> "avi"] >>

HtmlMarker == <<"text/html">>

\* The resource type of the first saved content type the header contains,
\* "none" when it contains none.
SavedType(ctype) ==
    LET hits == {i \in 1..Len(SaveTypes) : Contains(ctype, SaveTypes[i].marker)}
    IN  IF hits = {} THEN "none"
        ELSE SaveTypes[CHOOSE i \in hits : \A j \in hits : i <= j].type

\* A chain of tests without the one for 404.
Resource_branch_no404(resp) ==
    IF Content_type(resp) = <<>> THEN "TypeError"
    ELSE IF SavedType(Content_type(resp)[1]) # "none" THEN "save"
    ELSE IF Contains(Content_type(resp)[1], HtmlMarker) THEN "html"
    ELSE IF resp.status % 300 < 100 THEN "redirect"
    ELSE "unknown"

\* A chain of tests that looks at the content type before the status.
Resource_branch_typeFirst(resp) ==
    IF Content_type(resp) = <<>> THEN "TypeError"
    ELSE IF SavedType(Content_type(resp)[1]) # "none" THEN "save"
    ELSE IF Contains(Content_type(resp)[1], HtmlMarker) THEN "html"
    ELSE IF resp.status = 404 THEN "drop404"
    ELSE IF resp.status % 300 < 100 THEN "redirect"
    ELSE "unknown"

\* Resource.download after make_request, the chain of tests: which branch
\* the response takes.  `x in None` is a TypeError.
Resource_branch(resp) ==
    IF resp.status = 404 THEN "drop404"
    ELSE IF Content_type(resp) = <<>> THEN "TypeError"
    ELSE IF SavedType(Content_type(resp)[1]) # "none" THEN "save"
    ELSE IF Contains(Content_type(resp)[1], HtmlMarker) THEN "html"
    ELSE IF resp.status % 300 < 100 THEN "redirect"
    ELSE "unknown"

\* What one download() attempt does, as a record of its effects.
NoEffects(link, cache) ==
    [branch |-> "none", exc |-> "none", link |-> link, again |-> FALSE,
     decision |-> "none", cache |-> cache, dirs |-> {}, denied |-> FALSE,
     wrote |-> FALSE, record |-> <<>>, children |-> <<>>, dump |-> FALSE]

\* Resource.parse_html: [exc, children, dump].  The name is the heading of
\* the main div (None.h2 is an AttributeError).  The object, then the
\* iframe, then the workaround div give the url of the one child; None['x']
\* is the TypeError the three try blocks catch, None.a is an AttributeError
\* they do not; the last except dumps the body.
Parse_html(link, page) ==
    IF ~page.main
    THEN [exc |-> "AttributeError", children |-> <<>>, dump |-> FALSE]
    ELSE IF page.object # <<>>
    THEN [exc |-> "none", dump |-> FALSE,
          children |-> <<NewLink("Resource", page.title, page.object[1])>>]
    ELSE IF page.iframe # <<>>
    THEN [exc |-> "none", dump |-> FALSE,
          children |-> <<NewLink("Resource", page.title, page.iframe[1])>>]
    ELSE IF page.workaround = "absent"
    THEN [exc |-> "AttributeError", children |-> <<>>, dump |-> FALSE]
    ELSE IF page.workaround = "nolink"
    THEN [exc |-> "none", children |-> <<>>, dump |-> TRUE]
    ELSE [exc |-> "none", dump |-> FALSE,
          children |-> <<NewLink("Resource", page.title, page.href)>>]

\* Resource.download on the response make_request obtained.
Resource_download(link, resp, cache, denied) ==
    LET Saved(none, r) ==
            [none EXCEPT !.exc = r.exc, !.link = r.link, !.decision = r.decision,
                         !.cache = r.cache, !.dirs = r.dirs, !.denied = r.denied,
                         !.wrote = r.wrote, !.record = r.record]
        Parsed(none, r) ==
            [none EXCEPT !.exc = r.exc, !.children = r.children, !.dump = r.dump]
        Branch(b, none) ==
            CASE b = "drop404" -> none
              [] b = "TypeError" -> [none EXCEPT !.exc = "TypeError"]
              [] b = "save" -> Saved(none, Save_response_content(link, resp, cache, denied))
              [] b = "html" -> Parsed(none, Parse_html(link, resp.page))
              [] b = "redirect" ->
                    IF resp.location = <<>> THEN [none EXCEPT !.exc = "KeyError"]
                    ELSE [none EXCEPT !.link = [link EXCEPT !.url = resp.location[1]],
                                      !.again = TRUE]
              [] OTHER -> none
    IN  Branch(Resource_branch(resp),
               [NoEffects(link, cache) EXCEPT !.branch = Resource_branch(resp)])

(***************************************************************************)
(* Folder, Forum and Delivery.  A page lists items in page order; findAll  *)
(* selects those of one tag.  An item's href is <<>> when the anchor (or   *)
(* the attribute) is missing.                                              *)
(***************************************************************************)
FindAll(page, tag) == SelectSeq(page.items, LAMBDA it : it.tag = tag)

\* BaseLink.append_subfolder.
Append_subfolder(link, dirname) ==
    [link EXCEPT !.subfolders = Append(@, secure_filename(dirname))]

\* Folder.make_folder and Delivery.make_subfolder: the own name becomes a
\* subfolder, then create_subject_folder and create_subfolder, which
\* resolves the filepath and makes its directory: [exc, link, dirs].
Make_folder(link, resp) ==
    LET Made(a) ==
            IF a.exc # "none"
            THEN [exc |-> a.exc, link |-> a.link, dirs |-> {<<RootFolder, SubjectFolder>>}]
            ELSE [exc |-> "none", link |-> a.link,
                  dirs |-> {<<RootFolder, SubjectFolder>>, Dirname(a.link.filepath[1])}]
    IN  Made(Autoset_filepath(Append_subfolder(link, link.name), resp))

\* A child that shares the subfolders of the link that found it.
Child(kind, name, url, parent) ==
    [NewLink(kind, name, url) EXCEPT !.subfolders = parent.subfolders]

\* Folder.download, the loop over the containers: an entry without its
\* anchor is skipped (except TypeError: continue).
Folder_children(link, items) ==
    LET found == SelectSeq(items, LAMBDA it : it.href # <<>>)
    IN  [i \in 1..Len(found) |->
            Child("Resource", SplitextRoot(found[i].text), found[i].href[1], link)]

Folder_download(link, resp, cache) ==
    LET Listed(m, none) ==
            IF m.exc # "none" THEN [none EXCEPT !.exc = m.exc, !.dirs = m.dirs]
            ELSE [none EXCEPT !.dirs = m.dirs, !.children =
                    Folder_children(m.link, FindAll(resp.page, "fp-filename-icon"))]
        Made(m) == Listed(m, [NoEffects(m.link, cache) EXCEPT !.branch = "folder"])
    IN  Made(Make_folder(link, resp))

\* The items a loop reaches before the first one that raises.
Before(items, Raises(_)) ==
    LET K == {i \in 1..Len(items) : Raises(items[i])}
    IN  IF K = {} THEN items
        ELSE SubSeq(items, 1, (CHOOSE i \in K : \A j \in K : i <= j) - 1)

\* Forum.download, the loop over the themes: [children, exc].  A theme
\* without its anchor is a TypeError that ends the loop, the themes before
\* it already on the queue.
Forum_themes(items) ==
    LET done == Before(items, LAMBDA it : it.href = <<>>)
    IN  [children |-> [i \in 1..Len(done) |->
                          NewLink("Forum", done[i].text, done[i].href[1])],
         exc |-> IF Len(done) < Len(items) THEN "TypeError" ELSE "none"]

\* Forum.download, the loop over the attachments: one without its anchor
\* is passed over (except TypeError: pass).
Forum_attachments(link, items) ==
    LET found == SelectSeq(items, LAMBDA it : it.href # <<>>)
    IN  [i \in 1..Len(found) |->
            Child("Resource", SplitextRoot(found[i].text), found[i].href[1], link)]

\* Forum.download, the loop over the images: the url is the href, else the
\* src; an image with neither is a KeyError that ends the loop.  The name
\* is the last segment of the url without its extension.
ImageUrl(it) == IF it.href # <<>> THEN it.href ELSE it.src

Forum_images(link, items) ==
    LET done == Before(items, LAMBDA it : ImageUrl(it) = <<>>)
    IN  [children |-> [i \in 1..Len(done) |->
                          Child("Resource", SplitextRoot(Basename(ImageUrl(done[i])[1])),
                                ImageUrl(done[i])[1], link)],
         exc |-> IF Len(done) < Len(items) THEN "KeyError" ELSE "none"]

\* Forum.download; `root` is Options.FORUMS_SUBFOLDERS.
Forum_download(link, resp, cache, root) ==
    LET Themes(none, t) == [none EXCEPT !.children = t.children, !.exc = t.exc]
        Files(none, a, i) == [none EXCEPT !.children = a \o i.children, !.exc = i.exc]
        Branch(l2, b, none) ==
            CASE b = "view" ->
                    Themes(none, Forum_themes(FindAll(resp.page, "topic starter")))
              [] b = "discuss" ->
                    Files(none, Forum_attachments(l2, FindAll(resp.page, "attachments")),
                          Forum_images(l2, FindAll(resp.page, "attachedimages")))
              [] OTHER -> [none EXCEPT !.exc = "RuntimeError"]
        Named(l2) ==
            Branch(l2, ForumBranch(link.url),
                   [NoEffects(l2, cache) EXCEPT !.branch = ForumBranch(link.url)])
        Rooted(l1) == Named(Append_subfolder(l1, link.name))
    IN  Rooted(IF Len(link.subfolders) = 0 /\ root
               THEN Append_subfolder(link, <<"foros">>) ELSE link)

\* str(n).
DigitTok == <<"0", "1", "2", "3", "4", "5", "6", "7", "8", "9">>

IntToStr(n) ==
    LET D[k \in 0..n] == IF k < 10 THEN <<DigitTok[k + 1]>>
                         ELSE D[k \div 10] \o <<DigitTok[(k % 10) + 1]>>
    IN  D[n]

\* names.count(x).
Count(names, x) == Cardinality({i \in 1..Len(names) : names[i] = x})

\* A renaming loop that never advances dupes_counters.
Delivery_rename_stuck(links, dupes) ==
    [i \in 1..Len(links) |->
        IF links[i].name \in dupes
        THEN [links[i] EXCEPT !.name = @ \o <<"_">> \o IntToStr(1)]
        ELSE links[i]]

\* Delivery.download, the renaming loop: after i links, the links renamed
\* so far and dupes_counters.
Delivery_rename(links, dupes) ==
    LET F[i \in 0..Len(links)] ==
            IF i = 0 THEN [out |-> <<>>, counters |-> [x \in dupes |-> 1]]
            ELSE LET prev == F[i - 1]
                     name == links[i].name
                 IN  IF name \in dupes
                     THEN [out |-> Append(prev.out,
                                     [links[i] EXCEPT !.name =
                                        name \o <<"_">> \o IntToStr(prev.counters[name])]),
                           counters |-> [prev.counters EXCEPT ![name] = @ + 1]]
                     ELSE [out |-> Append(prev.out, links[i]), counters |-> prev.counters]
    IN  F[Len(links)].out

\* Delivery.download, the loop that builds the links: a container without
\* href is a KeyError.
Delivery_links(link, items) ==
    LET done == Before(items, LAMBDA it : it.href = <<>>)
    IN  [links |-> [i \in 1..Len(done) |->
                       Child("Resource", SplitextRoot(done[i].text), done[i].href[1], link)],
         exc |-> IF Len(done) < Len(items) THEN "KeyError" ELSE "none"]

\* Delivery.download: the links are built and renamed, and only then put.
Delivery_download(link, resp, cache) ==
    LET Dupes(names) ==
            {names[i] : i \in {j \in 1..Len(names) : Count(names, names[j]) > 1}}
        Built(none, b) ==
            IF b.exc # "none" THEN [none EXCEPT !.exc = b.exc]
            ELSE [none EXCEPT !.children =
                    Delivery_rename(b.links,
                        Dupes([i \in 1..Len(b.links) |-> b.links[i].name]))]
        Listed(m, none) ==
            IF m.exc # "none" THEN [none EXCEPT !.exc = m.exc]
            ELSE Built(none, Delivery_links(m.link, FindAll(resp.page, "_blank")))
        Made(m) ==
            Listed(m, [NoEffects(m.link, cache) EXCEPT !.branch = "delivery",
                                                        !.dirs = m.dirs])
    IN  Made(Make_folder(link, resp))

----------------------------------------------------------------------------
(***************************************************************************)
(* The dispatch boundary, run(anything).                                   *)
(***************************************************************************)
LinkKinds == {"Resource", "Folder", "Forum", "Delivery"}
UnitKinds == LinkKinds \cup {"Subject"}

\* No courses listed yet.
NoCourses == [marker |-> FALSE, listed |-> <<>>, subjects |-> <<>>, put |-> <<>>]

NoUnit == [id |-> 0, kind |-> "None", url |-> <<>>]

\* How a unit's processing (download() or find_links()) can end.
Endings == {"return", "DownloaderError", "FileNotFoundError", "RuntimeError",
            "TypeError", "KeyError"}

\* The kinds of child a unit of this kind can put on the queue.
ChildKinds(u) ==
    CASE u.kind = "Subject" -> LinkKinds
      [] u.kind = "Resource" -> {"Resource"}
      [] u.kind = "Folder" -> {"Resource"}
      [] u.kind = "Delivery" -> {"Resource"}
      [] u.kind = "Forum" ->
            CASE ForumBranch(u.url) = "view" -> {"Forum"}
              [] ForumBranch(u.url) = "discuss" -> {"Resource"}
              [] OTHER -> {}
      [] OTHER -> {}

\* The most children one unit can put: parse_html returns after its one put.
MaxPuts(u) == IF u.kind = "Resource" THEN 1 ELSE MaxUnits

\* The ways download()/find_links() of this unit can end once it has made
\* `puts` puts.  Every request can fail in transport (DownloaderError).
\* A Forum of unknown URL shape raises RuntimeError, before any put.
\* A Resource saves or dumps through open() (FileNotFoundError), reads
\* headers (KeyError) and tests the content type (TypeError when absent).
\* A listing entry without its anchor is a TypeError (Forum topics) or a
\* KeyError (Forum images, Delivery links); the Folder catches its own.
DownloadEndings(u, puts) ==
    CASE u.kind = "Subject" -> {"return", "DownloaderError"}
      [] u.kind = "Resource" ->
            IF puts = 0
            THEN {"return", "DownloaderError", "FileNotFoundError", "TypeError", "KeyError"}
            ELSE {"return"}
      [] u.kind = "Folder" ->
            IF puts = 0 THEN {"return", "DownloaderError"} ELSE {"return"}
      [] u.kind = "Delivery" ->
            IF puts = 0 THEN {"return", "DownloaderError", "KeyError"} ELSE {"return"}
      [] u.kind = "Forum" ->
            IF ForumBranch(u.url) = "unknown"
            THEN (IF puts = 0 THEN {"DownloaderError", "RuntimeError"} ELSE {})
            ELSE (IF puts = 0 THEN {"return", "DownloaderError", "TypeError", "KeyError"}
                  ELSE {"return", "TypeError", "KeyError"})
      [] OTHER -> {}

\* `await value`: download() is a plain function returning None, and None is
\* not awaitable; find_links() is awaited as a coroutine.
Await(kind, ending) ==
    IF ending = "return" /\ kind \in LinkKinds THEN "TypeError" ELSE ending

\* run(anything): "returned" when run returns, "raised" when an exception
\* leaves it.  The try block holds `await anything.download()`.
run(kind, ending) ==
    IF kind \in LinkKinds
    THEN (IF Await(kind, ending) \in {"FileNotFoundError", "DownloaderError"}
          THEN "returned"
          ELSE IF Await(kind, ending) = "return" THEN "returned" ELSE "raised")
    ELSE IF kind = "Subject"
    THEN (IF Await(kind, ending) = "DownloaderError"
          THEN "returned"
          ELSE IF Await(kind, ending) = "return" THEN "returned" ELSE "raised")
    ELSE "returned"

----------------------------------------------------------------------------
(***************************************************************************)
(* SpecPool: the coordinator and the workers.                              *)
(***************************************************************************)
InitLinkVars ==
    /\ cur = <<>>
    /\ REAL_FILE_CACHE = <<>>
    /\ disk = <<>>
    /\ dirs = {}
    /\ downloads = <<>>
    /\ results = <<>>
    /\ dumps = 0
    /\ last = <<>>

InitPool ==
    /\ InitLinkVars
    /\ forums_subfolders = TRUE
    /\ queue = <<>>
    /\ unfinished_tasks = 0
    /\ worker = [w \in Workers |->
                    [pc |-> "unstarted", unit |-> NoUnit, puts |-> 0, exc |-> "none"]]
    /\ coord = "start"
    /\ subjects = 0
    /\ courses = NoCourses
    /\ dispatched = [i \in {} |-> 0]
    /\ created = 0

\* queue.put(item): append, and count the item as pending.
QueuePut(u) ==
    /\ queue' = Append(queue, u)
    /\ unfinished_tasks' = unfinished_tasks + 1
    /\ created' = created + 1
    /\ dispatched' = [i \in 1..(created + 1) |-> IF i <= created THEN dispatched[i] ELSE 0]

\* find_subjects: start_workers(queue, nthreads).
StartWorkers ==
    /\ coord = "start"
    /\ coord' = "login"
    /\ worker' = [w \in Workers |-> [worker[w] EXCEPT !.pc = "idle"]]
    /\ UNCHANGED <<queue, unfinished_tasks, subjects, courses, dispatched, created>>
    /\ UNCHANGED linkVars

\* find_subjects: the login, the marker test and the assembling of the
\* subjects; exit() when the marker is missing.
Login ==
    /\ coord = "login"
    /\ \E marker \in BOOLEAN, n \in 0..MaxSubjects :
          IF marker
          THEN coord' = "put" /\ subjects' = n
          ELSE coord' = "exited" /\ subjects' = 0
    /\ UNCHANGED <<queue, unfinished_tasks, worker, dispatched, created, courses>>
    /\ UNCHANGED linkVars

\* find_subjects: for i, _ in enumerate(subjects): queue.put(subjects[i]).
PutSubject ==
    /\ coord = "put"
    /\ subjects > 0
    /\ created < MaxUnits
    /\ QueuePut([id |-> created + 1, kind |-> "Subject", url |-> <<>>])
    /\ subjects' = subjects - 1
    /\ UNCHANGED <<worker, coord, courses>>
    /\ UNCHANGED linkVars

\* start: find_subjects returns and the coordinator reaches queue.join().
ReachJoin ==
    /\ coord = "put"
    /\ subjects = 0
    /\ coord' = "join"
    /\ UNCHANGED <<queue, unfinished_tasks, worker, subjects, courses, dispatched, created>>
    /\ UNCHANGED linkVars

\* start: queue.join() returns once no task is unfinished.
Join ==
    /\ coord = "join"
    /\ unfinished_tasks = 0
    /\ coord' = "released"
    /\ UNCHANGED <<queue, unfinished_tasks, worker, subjects, courses, dispatched, created>>
    /\ UNCHANGED linkVars

\* A worker takes the next unit and hands it to run().
WorkerGet(w) ==
    /\ worker[w].pc = "idle"
    /\ queue # <<>>
    /\ worker' = [worker EXCEPT ![w] =
                    [pc |-> "running", unit |-> Head(queue), puts |-> 0, exc |-> "none"]]
    /\ queue' = Tail(queue)
    /\ dispatched' = [dispatched EXCEPT ![Head(queue).id] = @ + 1]
    /\ UNCHANGED <<unfinished_tasks, coord, subjects, courses, created>>
    /\ UNCHANGED linkVars

\* The unit being processed puts one discovered child on the queue.
WorkerPut(w) ==
    /\ worker[w].pc = "running"
    /\ worker[w].puts < MaxPuts(worker[w].unit)
    /\ created < MaxUnits
    /\ \E k \in ChildKinds(worker[w].unit) :
         \E url \in (IF k = "Forum" THEN ForumUrls ELSE {UrlFile}) :
            QueuePut([id |-> created + 1, kind |-> k, url |-> url])
    /\ worker' = [worker EXCEPT ![w].puts = @ + 1]
    /\ UNCHANGED <<coord, subjects, courses>>
    /\ UNCHANGED linkVars

\* The unit's processing ends and run() returns: the worker counts the unit
\* as done and goes back for the next one.
WorkerDone(w) ==
    /\ worker[w].pc = "running"
    /\ \E e \in DownloadEndings(worker[w].unit, worker[w].puts) :
          run(worker[w].unit.kind, e) = "returned"
    /\ worker' = [worker EXCEPT ![w] =
                    [pc |-> "idle", unit |-> NoUnit, puts |-> 0, exc |-> "none"]]
    /\ unfinished_tasks' = unfinished_tasks - 1
    /\ UNCHANGED <<queue, coord, subjects, courses, dispatched, created>>
    /\ UNCHANGED linkVars

\* The unit's processing ends with an exception that leaves run(): it
\* unwinds the worker, which holds its unit for ever.
WorkerRaise(w) ==
    /\ worker[w].pc = "running"
    /\ \E e \in DownloadEndings(worker[w].unit, worker[w].puts) :
          /\ run(worker[w].unit.kind, e) = "raised"
          /\ worker' = [worker EXCEPT ![w].pc = "dead",
                                      ![w].exc = Await(worker[w].unit.kind, e)]
    /\ UNCHANGED <<queue, unfinished_tasks, coord, subjects, courses, dispatched, created>>
    /\ UNCHANGED linkVars

NextPool ==
    \/ StartWorkers
    \/ Login
    \/ PutSubject
    \/ ReachJoin
    \/ Join
    \/ \E w \in Workers : WorkerGet(w)
    \/ \E w \in Workers : WorkerPut(w)
    \/ \E w \in Workers : WorkerDone(w)
    \/ \E w \in Workers : WorkerRaise(w)

SpecPool == InitPool /\ [][NextPool]_vars

----------------------------------------------------------------------------
(***************************************************************************)
(* SpecLogin: find_subjects with the courses the portal lists.  The        *)
(* coordinator starts the workers, logs in, and on the course overview     *)
(* assembles one Subject per listed course, sorts them and puts them; the  *)
(* workers take the Subjects and complete them.                            *)
(***************************************************************************)
MaxCourses == 3

\* The titles of the listed courses.
TitleCalculo == <<"Calculo", " ", "(", "2019", ")">>
TitleAlgebra == <<"Algebra">>
TitleLower == <<"algebra">>
TitleGrado == <<"Grado", " ", "Algebra">>
TitlePostgrado == <<"Post", "grado", " ", "(", "2019", ")">>

CourseTitles == {TitleCalculo, TitleAlgebra, TitleLower, TitleGrado, TitlePostgrado}

\* find.h2.a['title'].split(' (')[0]: the title up to its first " (".
CourseName(title) ==
    LET cuts == {i \in 1..(Len(title) - 1) : title[i] = " " /\ title[i + 1] = "("}
    IN  IF cuts = {}
        THEN title
        ELSE SubSeq(title, 1, (CHOOSE i \in cuts : \A j \in cuts : i <= j) - 1)

\* if 'grado' in name.lower(): continue
IsGrado(name) == Contains(MapSeq(name, Lower), <<"grado">>)

\* The Subjects assembled, in the order of the listing.
Assemble(listed) ==
    LET F[i \in 0..Len(listed)] ==
            IF i = 0
            THEN <<>>
            ELSE IF IsGrado(CourseName(listed[i]))
                 THEN F[i - 1]
                 ELSE Append(F[i - 1], CourseName(listed[i]))
    IN  F[Len(listed)]

\* The order of str on the tokens of the names: upper case before lower.
TokenRank(t) ==
    CASE t = " " -> 0
      [] t = "Algebra" -> 1
      [] t = "Calculo" -> 2
      [] t = "algebra" -> 3
      [] OTHER -> 4

\* a < b between two names, as str compares them.
NameLess(a, b) ==
    \E k \in 1..(Len(b)) :
        /\ \A j \in 1..(k - 1) : j <= Len(a) /\ a[j] = b[j]
        /\ k - 1 <= Len(a)
        /\ \/ k = Len(a) + 1
           \/ k <= Len(a) /\ TokenRank(a[k]) < TokenRank(b[k])

\* The Subjects kept in the order of the listing.
SortByName_unsorted(names) == names

\* subjects.sort(key=lambda x: x.name): a stable sort by name.
SortByName(names) ==
    LET Insert(sorted, x) ==
            LET k == Cardinality({j \in 1..Len(sorted) : ~NameLess(x, sorted[j])})
            IN  SubSeq(sorted, 1, k) \o <<x>> \o SubSeq(sorted, k + 1, Len(sorted))
        F[i \in 0..Len(names)] ==
            IF i = 0 THEN <<>> ELSE Insert(F[i - 1], names[i])
    IN  F[Len(names)]

\* find_subjects: the login, the marker test, the assembling and the sort
\* of the subjects; exit() when the marker is missing.
FindSubjects ==
    /\ coord = "login"
    /\ \E marker \in BOOLEAN, listed \in SeqsUpTo(CourseTitles, MaxCourses) :
          IF marker
          THEN /\ coord' = "put"
               /\ courses' = [marker |-> TRUE, listed |-> listed,
                              subjects |-> SortByName(Assemble(listed)), put |-> <<>>]
               /\ subjects' = Len(Assemble(listed))
          ELSE /\ coord' = "exited"
               /\ courses' = [marker |-> FALSE, listed |-> listed,
                              subjects |-> <<>>, put |-> <<>>]
               /\ subjects' = 0
    /\ UNCHANGED <<queue, unfinished_tasks, worker, dispatched, created>>
    /\ UNCHANGED linkVars

\* find_subjects: for i, _ in enumerate(subjects): queue.put(subjects[i]).
PutNamedSubject ==
    /\ coord = "put"
    /\ subjects > 0
    /\ created < MaxUnits
    /\ LET name == courses.subjects[Len(courses.put) + 1]
       IN  /\ QueuePut([id |-> created + 1, kind |-> "Subject", url |-> <<>>,
                        name |-> name])
           /\ courses' = [courses EXCEPT !.put = Append(@, name)]
    /\ subjects' = subjects - 1
    /\ UNCHANGED <<worker, coord>>
    /\ UNCHANGED linkVars

NextLogin ==
    \/ StartWorkers
    \/ FindSubjects
    \/ PutNamedSubject
    \/ ReachJoin
    \/ Join
    \/ \E w \in Workers : WorkerGet(w)
    \/ \E w \in Workers : WorkerDone(w)

SpecLogin == InitPool /\ [][NextLogin]_vars

----------------------------------------------------------------------------
(***************************************************************************)
(* Spec and SpecListing: the Link state machine.  Links are discovered,    *)
(* taken from the queue in order and downloaded one at a time; each        *)
(* response the portal gives is one step of the download in progress.      *)
(* Spec crawls Resources against every response; SpecListing crawls        *)
(* Folders, Forums and Deliveries, the portal answering 404 for the        *)
(* Resources they find.                                                    *)
(***************************************************************************)
\* The names and texts of the portal's pages.
NameA == <<"a">>
NameLong == <<"a", "<", "b">>
NameLonger == <<"a", ">", "b">>
TextA == <<"a", ".", "pdf">>
TextB == <<"b", ".", "pdf">>
TextA1 == <<"a", "_", "1", ".", "pdf">>
Title == <<" ", "t">>

\* The Links Subject.find_links can put on the queue.
ResourceSeeds ==
    {NewLink("Resource", n, u) : n \in {NameA, NameLong, NameLonger},
                                 u \in {UrlFile, UrlView}}

ListingSeeds ==
    {NewLink("Folder", NameA, UrlView), NewLink("Delivery", NameA, UrlView),
     NewLink("Delivery", NameLong, UrlView)}
    \cup {NewLink("Forum", NameA, u) : u \in ForumUrls}

\* Content-Disposition headers: a quoted file name, and one the pattern
\* does not match.
CDispPdf == <<"attachment", ";", " ", "filename", "=", "\"", "n", ".", "PDF", "\"">>
CDispBare == <<"attachment", ";", " ", "filename", "=", "\"", "n", "\"">>
CDispInline == <<"inline">>

\* Content-Type headers.
CTypePdf == <<"application/pdf">>
CTypeHtml == <<"text/html", ";", " ", "charset=utf-8">>
CTypeCss == <<"text/css">>

NoPage == [main |-> FALSE, title |-> <<>>, object |-> <<>>, iframe |-> <<>>,
           workaround |-> "absent", href |-> <<>>, items |-> <<>>]

BaseResponse ==
    [status |-> 200, ctype |-> <<>>, cdisp |-> <<>>, clen |-> <<>>, body |-> 1,
     location |-> <<>>, page |-> NoPage]

\* The pages of a Resource served as HTML.
HtmlPages ==
    LET p == [NoPage EXCEPT !.main = TRUE, !.title = Title]
    IN  {NoPage, p,
         [p EXCEPT !.object = <<UrlFile>>],
         [p EXCEPT !.iframe = <<UrlFile>>],
         [p EXCEPT !.workaround = "nolink"],
         [p EXCEPT !.workaround = "link", !.href = UrlFile]}

\* The responses a Resource can get (make_request has retried every 408).
ResourceResponses ==
    {[BaseResponse EXCEPT !.status = 404, !.ctype = c] :
        c \in {<<>>, <<CTypePdf>>, <<CTypeHtml>>, <<CTypeCss>>}}
    \cup {[BaseResponse EXCEPT !.ctype = <<CTypePdf>>, !.cdisp = d, !.clen = n, !.body = b] :
        d \in {<<>>, <<CDispPdf>>, <<CDispBare>>, <<CDispInline>>},
        n \in {<<>>} \cup {<<k>> : k \in 1..MaxBody}, b \in 1..MaxBody}
    \cup {[BaseResponse EXCEPT !.status = st, !.ctype = <<CTypeHtml>>, !.page = pg] :
        st \in {200, 302}, pg \in HtmlPages}
    \cup {[BaseResponse EXCEPT !.status = st, !.ctype = <<CTypeCss>>, !.location = loc] :
        st \in {200, 302, 500}, loc \in {<<>>, <<UrlFile>>}}
    \cup {BaseResponse, [BaseResponse EXCEPT !.status = 302, !.location = <<UrlFile>>]}
    \cup {[BaseResponse EXCEPT !.status = 302, !.location = <<UrlFile>>,
                               !.ctype = <<CTypePdf>>],
          [BaseResponse EXCEPT !.status = 302, !.location = <<UrlFile>>,
                               !.ctype = <<CTypeHtml>>,
                               !.page = [NoPage EXCEPT !.main = TRUE, !.title = Title,
                                                       !.object = <<UrlFile>>]]}

NotFoundResponses == {[BaseResponse EXCEPT !.status = 404, !.ctype = <<CTypeHtml>>]}

\* The items a listing page can hold.
Item(tag, text, href, src) == [tag |-> tag, text |-> text, href |-> href, src |-> src]

FolderItems ==
    {Item("fp-filename-icon", t, h, <<>>) : t \in {TextA, TextB}, h \in {<<>>, <<UrlFile>>}}

DeliveryItems ==
    {Item("_blank", t, h, <<>>) : t \in {TextA, TextB}, h \in {<<>>, <<UrlFile>>}}
    \cup {Item("_blank", TextA1, <<UrlFile>>, <<>>)}

ForumItems ==
    {Item("topic starter", NameA, h, <<>>) : h \in {<<>>, <<UrlDiscuss>>}}
    \cup {Item("attachments", TextA, h, <<>>) : h \in {<<>>, <<UrlFile>>}}
    \cup {Item("attachedimages", <<>>, <<UrlFile>>, <<>>),
          Item("attachedimages", <<>>, <<>>, <<UrlFile>>),
          Item("attachedimages", <<>>, <<>>, <<>>)}

\* The responses a listing Link can get; only Folder and Delivery read the
\* Content-Disposition header.
ListingResponses(items, n, cdisps) ==
    {[BaseResponse EXCEPT !.ctype = <<CTypeHtml>>, !.cdisp = d,
                          !.page = [NoPage EXCEPT !.items = its]] :
        d \in cdisps, its \in SeqsUpTo(items, n)}

InitLinks ==
    /\ InitLinkVars
    /\ queue = <<>>
    /\ unfinished_tasks = 0
    /\ worker = [w \in Workers |->
                    [pc |-> "unstarted", unit |-> NoUnit, puts |-> 0, exc |-> "none"]]
    /\ coord = "start"
    /\ subjects = 0
    /\ courses = NoCourses
    /\ dispatched = <<>>
    /\ created = 0

\* Subject.find_links puts one more Link it discovered.
Discover(seeds, n) ==
    /\ created < n
    /\ \E l \in seeds : queue' = Append(queue, l)
    /\ unfinished_tasks' = unfinished_tasks + 1
    /\ created' = created + 1
    /\ UNCHANGED <<worker, coord, subjects, courses, dispatched, linkVars>>

\* A worker takes the next Link and calls its download().
Get ==
    /\ cur = <<>>
    /\ queue # <<>>
    /\ cur' = <<[link |-> Head(queue), hops |-> 0]>>
    /\ queue' = Tail(queue)
    /\ UNCHANGED <<unfinished_tasks, worker, coord, subjects, courses, dispatched, created>>
    /\ UNCHANGED <<REAL_FILE_CACHE, disk, dirs, downloads, results, dumps,
                   forums_subfolders, last>>

\* An alias path lies directly under the root folder; a real path has the
\* subject folder and the file name below it.
IsAlias(path) == Len(path) = 2

\* History: after the attempt `rec`, the url and the path of every filepath
\* autoset_filepath has resolved to an alias.
AliasesAfter(rec) ==
    IF /\ rec.link.filepath = <<>>
       /\ rec.eff.link.filepath # <<>>
       /\ IsAlias(rec.eff.link.filepath[1])
    THEN rec.aliases \cup {[url |-> rec.eff.link.url, path |-> rec.eff.link.filepath[1]]}
    ELSE rec.aliases

\* History: after the attempt `rec`, the length (get_header_length) of the
\* latest response save_response_content was called with, per filepath.
LengthsAfter(rec) ==
    IF rec.eff.branch = "save" /\ rec.eff.exc = "none"
    THEN [q \in DOMAIN rec.lengths \cup {rec.eff.link.filepath[1]} |->
            IF q = rec.eff.link.filepath[1] THEN Get_header_length(rec.resp)
            ELSE rec.lengths[q]]
    ELSE rec.lengths

\* The effects of one download() attempt on the shared state.
Apply(eff, resp, n) ==
    /\ created + Len(eff.children) <= n
    /\ eff.again => cur[1].hops < MaxHops
    /\ cur' = IF eff.again THEN <<[link |-> eff.link, hops |-> cur[1].hops + 1]>> ELSE <<>>
    /\ queue' = queue \o eff.children
    /\ unfinished_tasks' = unfinished_tasks + Len(eff.children)
    /\ created' = created + Len(eff.children)
    /\ REAL_FILE_CACHE' = eff.cache
    /\ disk' = IF eff.wrote
               THEN [q \in DOMAIN disk \cup {eff.link.filepath[1]} |->
                        IF q = eff.link.filepath[1] THEN resp.body ELSE disk[q]]
               ELSE disk
    /\ dirs' = dirs \cup eff.dirs
    /\ downloads' = downloads \o eff.record
    /\ results' = IF eff.decision \in {"new", "updated"}
                  THEN Append(results, [what |-> eff.decision, path |-> eff.link.filepath[1]])
                  ELSE results
    /\ dumps' = dumps + (IF eff.dump THEN 1 ELSE 0)
    /\ last' = <<[link |-> cur[1].link, resp |-> resp, eff |-> eff,
                  cache |-> REAL_FILE_CACHE, disk |-> disk, downloads |-> downloads,
                  lengths |-> IF last = <<>> THEN <<>> ELSE LengthsAfter(last[1]),
                  aliases |-> IF last = <<>> THEN {} ELSE AliasesAfter(last[1])]>>
    /\ UNCHANGED <<worker, coord, subjects, courses, dispatched, forums_subfolders>>

\* make_request fails in transport: DownloaderError leaves download().
RequestFails ==
    /\ cur # <<>>
    /\ Apply([NoEffects(cur[1].link, REAL_FILE_CACHE) EXCEPT
                !.branch = "request", !.exc = "DownloaderError"], BaseResponse, MaxListingLinks)

\* Resource.download gets its response.
ResourceRespond(responses, n) ==
    /\ cur # <<>>
    /\ cur[1].link.kind = "Resource"
    /\ \E resp \in responses, denied \in BOOLEAN :
          Apply(Resource_download(cur[1].link, resp, REAL_FILE_CACHE, denied), resp, n)

\* Folder.download gets its response.
FolderRespond ==
    /\ cur # <<>>
    /\ cur[1].link.kind = "Folder"
    /\ \E resp \in ListingResponses(FolderItems, MaxItems, {<<>>, <<CDispInline>>}) :
          Apply(Folder_download(cur[1].link, resp, REAL_FILE_CACHE), resp, MaxListingLinks)

\* Forum.download gets its response.
ForumRespond ==
    /\ cur # <<>>
    /\ cur[1].link.kind = "Forum"
    /\ \E resp \in ListingResponses(ForumItems, MaxForumItems, {<<>>}) :
          Apply(Forum_download(cur[1].link, resp, REAL_FILE_CACHE, forums_subfolders),
                resp, MaxListingLinks)

\* Delivery.download gets its response.
DeliveryRespond ==
    /\ cur # <<>>
    /\ cur[1].link.kind = "Delivery"
    /\ \E resp \in ListingResponses(DeliveryItems, MaxItems, {<<>>, <<CDispInline>>}) :
          Apply(Delivery_download(cur[1].link, resp, REAL_FILE_CACHE), resp, MaxListingLinks)

Next ==
    \/ Discover(ResourceSeeds, MaxSeeds)
    \/ Get
    \/ RequestFails
    \/ ResourceRespond(ResourceResponses, MaxLinks)

Init == InitLinks /\ forums_subfolders = TRUE

Spec == Init /\ [][Next]_vars

NextListing ==
    \/ Discover(ListingSeeds, MaxListingSeeds)
    \/ Get
    \/ RequestFails
    \/ ResourceRespond(NotFoundResponses, MaxListingLinks)
    \/ FolderRespond
    \/ ForumRespond
    \/ DeliveryRespond

InitListing == InitLinks /\ forums_subfolders \in BOOLEAN

SpecListing == InitListing /\ [][NextListing]_vars

----------------------------------------------------------------------------
(***************************************************************************)
(* SpecFilepath: the operations of one Link on its filepath.  The Link is  *)
(* constructed without a response; make_request, autoset_filepath,         *)
(* create_subfolder, save_response_content and Resource.download are then  *)
(* called on it in any order, a redirect being followed by the download it *)
(* re-issues.                                                              *)
(***************************************************************************)
MaxOps == 4

\* The Link before its first request: self.response = None.
NoResponse == [BaseResponse EXCEPT !.status = 0]

FilepathSeeds ==
    {NewLink("Resource", n, UrlView) : n \in {NameA, NameLonger}}

\* The responses the Link gets: a named pdf, a pdf named by the url, a pdf
\* whose name has no extension, a redirect.
FilepathResponses ==
    {[BaseResponse EXCEPT !.ctype = <<CTypePdf>>, !.cdisp = d] :
        d \in {<<>>, <<CDispPdf>>, <<CDispBare>>}}
    \cup {[BaseResponse EXCEPT !.status = 302, !.ctype = <<CTypeCss>>,
                               !.location = <<UrlFile>>]}

InitFilepath == InitLinks /\ forums_subfolders = TRUE

\* BaseLink.__init__: a Link with no response and no filepath.
NewOp ==
    /\ cur = <<>>
    /\ created = 0
    /\ created' = 1
    /\ \E l \in FilepathSeeds :
          cur' = <<[link |-> l, resp |-> NoResponse, ops |-> 0, again |-> FALSE]>>
    /\ UNCHANGED <<queue, unfinished_tasks, worker, coord, subjects, courses, dispatched>>
    /\ UNCHANGED <<REAL_FILE_CACHE, disk, dirs, downloads, results, dumps,
                   forums_subfolders, last>>

\* One operation `op` on the Link, called with the response `resp` at hand,
\* has the effects `eff`.
Operate(op, resp, eff) ==
    /\ cur[1].ops < MaxOps
    /\ cur' = <<[link |-> eff.link, resp |-> resp, ops |-> cur[1].ops + 1,
                 again |-> eff.again]>>
    /\ REAL_FILE_CACHE' = eff.cache
    /\ disk' = IF eff.wrote
               THEN [q \in DOMAIN disk \cup {eff.link.filepath[1]} |->
                        IF q = eff.link.filepath[1] THEN resp.body ELSE disk[q]]
               ELSE disk
    /\ dirs' = dirs \cup eff.dirs
    /\ downloads' = downloads \o eff.record
    /\ results' = IF eff.decision \in {"new", "updated"}
                  THEN Append(results, [what |-> eff.decision, path |-> eff.link.filepath[1]])
                  ELSE results
    /\ last' = <<[op |-> op, link |-> cur[1].link, resp |-> resp, eff |-> eff]>>
    /\ UNCHANGED <<queue, unfinished_tasks, worker, coord, subjects, courses, dispatched,
                   created, dumps, forums_subfolders>>

\* make_request: the Link gets a response.
MakeRequestOp ==
    /\ cur # <<>>
    /\ ~cur[1].again
    /\ \E resp \in FilepathResponses :
          Operate("make_request", resp, NoEffects(cur[1].link, REAL_FILE_CACHE))

\* autoset_filepath.
AutosetOp ==
    /\ cur # <<>>
    /\ ~cur[1].again
    /\ LET Done(a, none) == [none EXCEPT !.exc = a.exc, !.link = a.link]
       IN  Operate("autoset_filepath", cur[1].resp,
                   Done(Autoset_filepath(cur[1].link, cur[1].resp),
                        NoEffects(cur[1].link, REAL_FILE_CACHE)))

\* create_subfolder.
CreateSubfolderOp ==
    /\ cur # <<>>
    /\ ~cur[1].again
    /\ LET Done(a, none) == [none EXCEPT !.exc = a.exc, !.link = a.link, !.dirs = a.dirs]
       IN  Operate("create_subfolder", cur[1].resp,
                   Done(Create_subfolder(cur[1].link, cur[1].resp),
                        NoEffects(cur[1].link, REAL_FILE_CACHE)))

\* save_response_content.
SaveOp ==
    /\ cur # <<>>
    /\ ~cur[1].again
    /\ ~ResponseIsNone(cur[1].resp) \/ cur[1].link.filepath = <<>>
    /\ \E denied \in BOOLEAN :
          LET Done(r, none) ==
                  [none EXCEPT !.exc = r.exc, !.link = r.link, !.decision = r.decision,
                               !.cache = r.cache, !.dirs = r.dirs, !.denied = r.denied,
                               !.wrote = r.wrote, !.record = r.record]
          IN  Operate("save_response_content", cur[1].resp,
                      Done(Save_response_content(cur[1].link, cur[1].resp,
                                                 REAL_FILE_CACHE, denied),
                           NoEffects(cur[1].link, REAL_FILE_CACHE)))

\* Resource.download, also as re-issued by a redirect: make_request and the
\* dispatch on the response.
DownloadOp ==
    /\ cur # <<>>
    /\ \E resp \in FilepathResponses, denied \in BOOLEAN :
          Operate("download", resp,
                  Resource_download(cur[1].link, resp, REAL_FILE_CACHE, denied))

NextFilepath ==
    \/ NewOp
    \/ MakeRequestOp
    \/ AutosetOp
    \/ CreateSubfolderOp
    \/ SaveOp
    \/ DownloadOp

SpecFilepath == InitFilepath /\ [][NextFilepath]_vars

----------------------------------------------------------------------------
(***************************************************************************)
(* SpecRequest: BaseLink.make_request, one step per GET.  A response of    *)
(* status 408 makes make_request call itself; each call is one more frame  *)
(* on the interpreter's stack, which raises RecursionError at its limit.   *)
(***************************************************************************)
MaxRequests == 2

\* The nested calls of make_request the interpreter takes: the recursion
\* limit less the frames below make_request, scaled down.
RecursionLimit == 3

\* The responses the portal gives to a GET.
RequestResponses ==
    FilepathResponses
    \cup {[BaseResponse EXCEPT !.status = st] : st \in {404, 408}}
    \cup {[BaseResponse EXCEPT !.status = 408, !.ctype = <<CTypeHtml>>]}

InitRequest == InitLinks /\ forums_subfolders = TRUE

\* download() calls make_request on a Link.
CallMakeRequest ==
    /\ cur = <<>>
    /\ created < MaxRequests
    /\ created' = created + 1
    /\ \E l \in FilepathSeeds :
          cur' = <<[link |-> l, resp |-> NoResponse, depth |-> 1, answers |-> <<>>]>>
    /\ UNCHANGED <<queue, unfinished_tasks, worker, coord, subjects, courses, dispatched>>
    /\ UNCHANGED <<REAL_FILE_CACHE, disk, dirs, downloads, results, dumps,
                   forums_subfolders, last>>

\* self.response = self.downloader.get(self.redirect_url or self.url): one
\* GET of the Link's url, answered by the portal; on 408 make_request calls
\* itself, else it returns.
GetAnswered ==
    /\ cur # <<>>
    /\ \E resp \in RequestResponses :
          LET Return(answers, exc) ==
                  /\ cur' = <<>>
                  /\ last' = <<[link |-> cur[1].link, resp |-> resp, answers |-> answers,
                                exc |-> exc]>>
              Again(answers) ==
                  /\ cur' = <<[cur[1] EXCEPT !.resp = resp, !.depth = @ + 1,
                                             !.answers = answers]>>
                  /\ last' = last
              Answered(answers) ==
                  IF resp.status = 408
                  THEN IF cur[1].depth < RecursionLimit
                       THEN Again(answers)
                       ELSE Return(answers, "RecursionError")
                  ELSE Return(answers, "none")
          IN  Answered(Append(cur[1].answers, [url |-> cur[1].link.url, resp |-> resp]))
    /\ UNCHANGED <<queue, unfinished_tasks, worker, coord, subjects, courses, dispatched,
                   created>>
    /\ UNCHANGED <<REAL_FILE_CACHE, disk, dirs, downloads, results, dumps,
                   forums_subfolders>>

NextRequest ==
    \/ CallMakeRequest
    \/ GetAnswered

SpecRequest == InitRequest /\ [][NextRequest]_vars

----------------------------------------------------------------------------
(***************************************************************************)
(* save_response_content run by several workers at once.  The method holds *)
(* no lock, so another worker can run between its statements: the call is  *)
(* split at the test of the cache (line 222), at the assignment to the     *)
(* cache (line 234) and at the write (line 237).                           *)
(***************************************************************************)
MaxSaves == 2

\* The responses Resource.download hands to save_response_content.
SaveResponses == {r \in ResourceResponses : Resource_branch(r) = "save"}

Idle == [pc |-> "idle", link |-> NoUnit, resp |-> BaseResponse, decision |-> "none"]

InitSave ==
    /\ InitLinkVars
    /\ forums_subfolders = TRUE
    /\ queue = <<>>
    /\ unfinished_tasks = 0
    /\ worker = [w \in Workers |-> Idle]
    /\ coord = "start"
    /\ subjects = 0
    /\ courses = NoCourses
    /\ dispatched = <<>>
    /\ created = 0

\* Lines 214-217: the filepath is resolved and the folders are made.  An
\* exception of autoset_filepath ends the call.
SaveBegin(w) ==
    /\ worker[w].pc = "idle"
    /\ created < MaxSaves
    /\ created' = created + 1
    /\ \E l \in ResourceSeeds, resp \in SaveResponses :
          LET Resolved(a) ==
                /\ worker' = [worker EXCEPT ![w] =
                                IF a.exc # "none" THEN Idle
                                ELSE [pc |-> "test", link |-> a.link, resp |-> resp,
                                      decision |-> "none"]]
                /\ dirs' = IF a.exc # "none" THEN dirs
                           ELSE dirs \cup {<<RootFolder, SubjectFolder>>,
                                           Dirname(a.link.filepath[1])}
          IN  Resolved(Autoset_filepath(l, resp))
    /\ UNCHANGED <<queue, unfinished_tasks, coord, subjects, courses, dispatched>>
    /\ UNCHANGED <<cur, REAL_FILE_CACHE, disk, downloads, results, dumps,
                   forums_subfolders, last>>

\* Lines 222-231: the test of the cache.  Unchanged content returns, changed
\* content is reported as updated, an unknown path goes on to line 234.
SaveTest(w) ==
    /\ worker[w].pc = "test"
    /\ LET Decided(path, d) ==
            /\ worker' = [worker EXCEPT ![w] =
                            IF d = "unchanged" THEN Idle
                            ELSE [@ EXCEPT !.decision = d,
                                           !.pc = IF d = "new" THEN "set" ELSE "write"]]
            /\ results' = IF d = "updated"
                          THEN Append(results, [what |-> "updated", path |-> path])
                          ELSE results
       IN  Decided(worker[w].link.filepath[1],
                   SaveDecision(REAL_FILE_CACHE, worker[w].link.filepath[1], worker[w].resp))
    /\ UNCHANGED <<poolVarsButWorker, cur, REAL_FILE_CACHE, disk, dirs, downloads, dumps,
                   forums_subfolders, last>>

\* Lines 234-235: the path enters the cache and is reported as new.
SaveSet(w) ==
    /\ worker[w].pc = "set"
    /\ REAL_FILE_CACHE' = CacheSet(REAL_FILE_CACHE, worker[w].link.filepath[1], worker[w].resp)
    /\ results' = Append(results, [what |-> "new", path |-> worker[w].link.filepath[1]])
    /\ worker' = [worker EXCEPT ![w].pc = "write"]
    /\ UNCHANGED <<poolVarsButWorker, cur, disk, dirs, downloads, dumps,
                   forums_subfolders, last>>

\* Lines 237-247: the body is written and the download recorded, unless the
\* file system refuses the write (PermissionError).
SaveWrite(w) ==
    /\ worker[w].pc = "write"
    /\ \E denied \in BOOLEAN :
          /\ disk' = IF denied THEN disk
                     ELSE CacheSet(disk, worker[w].link.filepath[1], worker[w].resp)
          /\ downloads' = IF denied THEN downloads
                          ELSE Append(downloads,
                                 [subject |-> SubjectName,
                                  file |-> PathBasename(worker[w].link.filepath[1])])
    /\ worker' = [worker EXCEPT ![w] = Idle]
    /\ UNCHANGED <<poolVarsButWorker, cur, REAL_FILE_CACHE, dirs, results, dumps,
                   forums_subfolders, last>>

NextSave ==
    \/ \E w \in Workers : SaveBegin(w)
    \/ \E w \in Workers : SaveTest(w)
    \/ \E w \in Workers : SaveSet(w)
    \/ \E w \in Workers : SaveWrite(w)

SpecSave == InitSave /\ [][NextSave]_vars

----------------------------------------------------------------------------
(***************************************************************************)
(* The pool's claims.                                                      *)
(***************************************************************************)
\* No worker can take a step: none is processing a unit, and the queue is
\* empty or there is no worker left to take from it.
PoolQuiet ==
    /\ coord \in {"join", "released"}
    /\ \A w \in Workers : worker[w].pc # "running"
    /\ (queue = <<>> \/ \A w \in Workers : worker[w].pc # "idle")

\* C1: every unit ever enqueued is dispatched exactly once: never twice, and
\* once the pool has nothing left it can do, no enqueued unit was skipped.
C1_ExactlyOnce ==
    /\ \A i \in DOMAIN dispatched : dispatched[i] <= 1
    /\ PoolQuiet => \A i \in DOMAIN dispatched : dispatched[i] = 1

\* C2: the completion barrier: the coordinator is never released while a
\* unit is queued or in flight, and once the pool has nothing left it can do
\* the pending count is zero, so that queue.join() returns.
C2_Barrier ==
    /\ coord = "released" =>
          /\ queue = <<>>
          /\ unfinished_tasks = 0
          /\ \A w \in Workers : worker[w].unit = NoUnit
    /\ PoolQuiet => unfinished_tasks = 0

\* C3: no exception raised while a unit is processed leaves run(): every
\* worker that has taken a unit is processing it or is back for the next
\* one, and only the login failure ends the run.
C3_Containment ==
    \A w \in Workers : worker[w].pc \in {"unstarted", "idle", "running"}

----------------------------------------------------------------------------
(***************************************************************************)
(* The save path's claims.                                                 *)
(***************************************************************************)
\* The last attempt called save_response_content and got past
\* autoset_filepath.
Saved(rec) == rec.eff.branch = "save" /\ rec.eff.exc = "none"

\* C4: a save for a filepath whose previous save had a response of the same
\* length (the Content-Length header if present, else the byte count of the
\* body) is a no-op: nothing is written, nothing is recorded, nothing is
\* reported, and the cache stays as it was.
C4_IdempotentSave ==
    \A i \in 1..Len(last) :
        (/\ Saved(last[i])
         /\ last[i].eff.link.filepath[1] \in DOMAIN last[i].lengths
         /\ last[i].lengths[last[i].eff.link.filepath[1]] = Get_header_length(last[i].resp))
        => /\ last[i].eff.decision = "unchanged"
           /\ ~last[i].eff.wrote
           /\ last[i].eff.record = <<>>
           /\ last[i].eff.cache = last[i].cache

\* C5: a save for a filepath that is a cache key, with a response whose
\* length differs from the cached one, is reported as an update and leaves
\* the cache entry of the filepath equal to the new length.
C5_UpdateRefreshesCache ==
    \A i \in 1..Len(last) :
        (/\ Saved(last[i])
         /\ last[i].eff.link.filepath[1] \in DOMAIN last[i].cache
         /\ last[i].cache[last[i].eff.link.filepath[1]] # Get_header_length(last[i].resp))
        => /\ last[i].eff.decision = "updated"
           /\ last[i].eff.cache[last[i].eff.link.filepath[1]] = Get_header_length(last[i].resp)

\* C6: whatever the interleaving of the workers, no filepath is reported as
\* a new file more than once.
C6_AtMostOneNew ==
    \A i, j \in 1..Len(results) :
        (results[i].what = "new" /\ results[j].what = "new"
            /\ results[i].path = results[j].path) => i = j

----------------------------------------------------------------------------
(***************************************************************************)
(* The listings' claims.  last[i].eff.children is the sequence of          *)
(* queue.put calls of the attempt, in the order they were made.            *)
(***************************************************************************)
\* The names of the attachments of a Delivery page, in page order: the link
\* text without its extension, stripped.
AttachmentNames(items) == [k \in 1..Len(items) |-> Strip(SplitextRoot(items[k].text))]

\* The 1-based occurrence index of names[k] in first-seen order.
Occurrence(names, k) == Cardinality({j \in 1..k : names[j] = names[k]})

\* The name the k-th sibling is to carry.
Deduplicated(names, k) ==
    IF Cardinality({j \in 1..Len(names) : names[j] = names[k]}) > 1
    THEN names[k] \o <<"_">> \o IntToStr(Occurrence(names, k))
    ELSE names[k]

DedupOK(items, names, eff) ==
    IF eff.exc # "none" THEN eff.children = <<>>
    ELSE /\ Len(eff.children) = Len(items)
         /\ \A k \in 1..Len(items) :
               /\ eff.children[k].kind = "Resource"
               /\ eff.children[k].url = items[k].href[1]
               /\ eff.children[k].name = Deduplicated(names, k)

\* C7: a Delivery puts one Resource per attachment of its page, in page
\* order; a name that occurs more than once carries the suffix _k, k its
\* 1-based occurrence index in page order, a name that occurs once is
\* unchanged; when the page cannot be listed in full nothing is put.
C7_DeliveryDedup ==
    \A i \in 1..Len(last) :
        last[i].eff.branch = "delivery"
        => DedupOK(FindAll(last[i].resp.page, "_blank"),
                   AttachmentNames(FindAll(last[i].resp.page, "_blank")), last[i].eff)

\* The siblings a.pdf, a.pdf, b.pdf were put as a_1, a_2, b, which a pdf
\* response saves as a_1.pdf, a_2.pdf, b.pdf.
C7_Witness ==
    /\ last # <<>>
    /\ last[1].eff.branch = "delivery"
    /\ last[1].eff.exc = "none"
    /\ [k \in 1..Len(last[1].resp.page.items) |-> last[1].resp.page.items[k].text]
          = <<TextA, TextA, TextB>>
    /\ [k \in 1..Len(last[1].eff.children) |->
          PathBasename(Real_filepath(last[1].eff.children[k], <<"pdf">>))]
          = << <<"a", "_", "1", ".", "pdf">>, <<"a", "_", "2", ".", "pdf">>,
               <<"b", ".", "pdf">> >>

\* What a Forum page lists.
Topics(rec) == FindAll(rec.resp.page, "topic starter")
Attachments(rec) == FindAll(rec.resp.page, "attachments")
Images(rec) == FindAll(rec.resp.page, "attachedimages")

HasView(rec) == Contains(rec.link.url, <<"view", ".", "php">>)
HasDiscuss(rec) == Contains(rec.link.url, <<"discuss", ".", "php">>)

\* The attempt was a Forum's and its request succeeded.
ForumListed(rec) == rec.link.kind = "Forum" /\ rec.eff.branch # "request"

AllOfKind(children, kind) == \A k \in 1..Len(children) : children[k].kind = kind

Linked(items) == SelectSeq(items, LAMBDA it : it.href # <<>>)

Reached(items, Bad(_)) ==
    Cardinality({k \in 1..Len(items) : \A j \in 1..k : ~Bad(items[j])})

NoLink(it) == it.href = <<>>
NoSource(it) == it.href = <<>> /\ it.src = <<>>

RaisesAfter(reached, items, exc) == IF reached < Len(items) THEN exc ELSE "none"

----------------------------------------------------------------------------
(***************************************************************************)
(* The claims of Resource.download's dispatch on the content type.         *)
(***************************************************************************)
\* The attempt was a Resource's, its request succeeded, and the content
\* type of the response contains `marker`.
ResourceGot(rec, marker) ==
    /\ rec.link.kind = "Resource"
    /\ rec.eff.branch # "request"
    /\ rec.resp.ctype # <<>>
    /\ Contains(rec.resp.ctype[1], marker)

\* The attempt wrote nothing, recorded nothing and left the cache alone.
NothingSaved(rec) ==
    /\ ~rec.eff.wrote
    /\ rec.eff.record = <<>>
    /\ rec.eff.cache = rec.cache
    /\ rec.eff.decision = "none"

\* C9 as stated: a Resource whose response is text/html goes to parse_html,
\* and nothing is written, cached or recorded.
C9_HtmlNeverSaved ==
    \A i \in 1..Len(last) :
        ResourceGot(last[i], <<"text/html">>)
        => last[i].eff.branch = "html" /\ NothingSaved(last[i])

\* C9 amended: a Resource whose response is text/html and not a 404 goes to
\* parse_html, a 404 is dropped before its content type is looked at; in
\* both cases nothing is written, cached or recorded.
C9_HtmlNeverSavedUnless404 ==
    \A i \in 1..Len(last) :
        ResourceGot(last[i], <<"text/html">>)
        => /\ last[i].resp.status # 404 => last[i].eff.branch = "html"
           /\ last[i].resp.status = 404
                => /\ last[i].eff.branch = "drop404"
                   /\ last[i].eff.children = <<>>
                   /\ last[i].eff.exc = "none"
           /\ NothingSaved(last[i])

\* A text/html page with an embedded object was parsed: its child was put
\* and nothing was saved.
C9_Witness ==
    /\ last # <<>>
    /\ ResourceGot(last[1], <<"text/html">>)
    /\ last[1].resp.status = 200
    /\ last[1].eff.branch = "html"
    /\ Len(last[1].eff.children) = 1
    /\ NothingSaved(last[1])
    /\ disk = last[1].disk

\* The tokens after the last dot of the last component of a path.
ExtOfPath(path) ==
    SubSeq(PathBasename(path), LastIndex(PathBasename(path), ".") + 1,
           Len(PathBasename(path)))

\* C10 as stated: a Resource whose response is application/pdf and not a
\* 404 is saved through the save path under a filepath of extension pdf.
C10_PdfExtension ==
    \A i \in 1..Len(last) :
        (ResourceGot(last[i], <<"application/pdf">>) /\ last[i].resp.status # 404)
        => /\ last[i].eff.branch = "save"
           /\ last[i].eff.exc = "none"
           /\ last[i].eff.link.filepath # <<>>
           /\ ExtOfPath(last[i].eff.link.filepath[1]) = <<"pdf">>

\* The name the extension is taken from: the file name of the
\* Content-Disposition header when the response has the header (<<>> when
\* the header names no file), else the last segment of the url.
ResponseName(rec) ==
    IF rec.resp.cdisp # <<>> THEN Filename_pattern(MapSeq(rec.resp.cdisp[1], Ascii))
    ELSE <<Basename(rec.link.url)>>

\* The name ends in .pdf, in either case.
NamedPdf(name) ==
    /\ LastIndex(name, ".") > 0
    /\ MapSeq(SubSeq(name, LastIndex(name, ".") + 1, Len(name)), Lower) = <<"pdf">>

PdfSavedByName(rec, name) ==
    IF name = <<>>
    THEN /\ rec.eff.exc = "AttributeError"
         /\ rec.eff.link.filepath = <<>>
         /\ NothingSaved(rec)
    ELSE /\ rec.eff.exc = "none"
         /\ rec.eff.decision \in {"new", "updated", "unchanged"}
         /\ rec.eff.link.filepath # <<>>
         /\ \/ rec.eff.link.filepath[1] = <<RootFolder, Sha1(rec.link.url)>>
            \/ (ExtOfPath(rec.eff.link.filepath[1]) = <<"pdf">>) <=> NamedPdf(name[1])

\* C10 amended: a Resource whose response is application/pdf and not a 404
\* takes the save path.  The extension comes from the response name, not
\* from the content type: it is pdf exactly when the response name ends in
\* .pdf (unless the path is replaced by its alias), and a
\* Content-Disposition header that names no file raises AttributeError
\* before anything is saved.
C10_PdfSavedByName ==
    \A i \in 1..Len(last) :
        (ResourceGot(last[i], <<"application/pdf">>) /\ last[i].resp.status # 404)
        => /\ last[i].eff.branch = "save"
           /\ PdfSavedByName(last[i], ResponseName(last[i]))

\* A pdf response for the url view.php?id=1 whose Content-Disposition names
\* n.PDF was written under a filepath of extension pdf.
C10_Witness ==
    /\ last # <<>>
    /\ ResourceGot(last[1], <<"application/pdf">>)
    /\ last[1].resp.status = 200
    /\ last[1].link.url = UrlView
    /\ last[1].resp.cdisp = <<CDispPdf>>
    /\ last[1].eff.wrote
    /\ ExtOfPath(last[1].eff.link.filepath[1]) = <<"pdf">>
    /\ last[1].eff.link.filepath[1] \in DOMAIN disk

----------------------------------------------------------------------------
(***************************************************************************)
(* Folder.download's claim.                                                *)
(***************************************************************************)
\* The entries of a Folder page, in page order.
Entries(rec) == FindAll(rec.resp.page, "fp-filename-icon")

FolderChildrenOK(children, entries, subfolders) ==
    /\ Len(children) = Len(entries)
    /\ \A k \in 1..Len(entries) :
          /\ children[k].kind = "Resource"
          /\ children[k].url = entries[k].href[1]
          /\ children[k].subfolders = subfolders

\* C11: processing a Folder appends its sanitized name to its subfolders,
\* makes the subject folder and the folder's subfolder, and puts exactly
\* one Resource per entry that has its link, in page order, each with the
\* folder's subfolders; no exception leaves download.
C11_FolderDiscovery ==
    \A i \in 1..Len(last) :
        (last[i].link.kind = "Folder" /\ last[i].eff.branch # "request")
        => /\ last[i].eff.exc = "none"
           /\ last[i].eff.link.subfolders
                = Append(last[i].link.subfolders, secure_filename(last[i].link.name))
           /\ <<RootFolder, SubjectFolder>> \in last[i].eff.dirs
           /\ (<<RootFolder, SubjectFolder>> \o last[i].eff.link.subfolders)
                \in last[i].eff.dirs
           /\ FolderChildrenOK(last[i].eff.children, Linked(Entries(last[i])),
                               last[i].eff.link.subfolders)

----------------------------------------------------------------------------
----------------------------------------------------------------------------
(***************************************************************************)
(* C13: a login failure is fatal.  When the course overview lacks its      *)
(* marker the coordinator exits: no Subject is ever put and no unit is     *)
(* ever handed to a worker.  When the marker is there, the Subjects put    *)
(* are in ascending name order and, once the coordinator has put them      *)
(* all, they are exactly the listed courses whose name does not contain    *)
(* 'grado', each once.                                                     *)
(***************************************************************************)
\* The names of the listed courses that are kept, with their multiplicity.
KeptAt(listed) == {i \in 1..Len(listed) : ~IsGrado(CourseName(listed[i]))}

OncePerCourse(listed, put) ==
    /\ Len(put) = Cardinality(KeptAt(listed))
    /\ \A i \in KeptAt(listed) :
          Cardinality({j \in 1..Len(put) : put[j] = CourseName(listed[i])})
              = Cardinality({j \in KeptAt(listed) : CourseName(listed[j]) = CourseName(listed[i])})

Ascending(put) == \A i, j \in 1..Len(put) : i < j => ~NameLess(put[j], put[i])

C13_LoginFatal ==
    /\ coord = "exited" =>
          /\ ~courses.marker
          /\ queue = <<>> /\ created = 0 /\ unfinished_tasks = 0
          /\ courses.put = <<>>
          /\ \A w \in Workers : worker[w].pc = "idle"
    /\ coord \in {"put", "join", "released"} =>
          /\ courses.marker
          /\ Ascending(courses.put)
          /\ \A i \in 1..Len(courses.put) : \E j \in KeptAt(courses.listed) :
                courses.put[i] = CourseName(courses.listed[j])
    /\ coord \in {"join", "released"} => OncePerCourse(courses.listed, courses.put)

\* Reached: a listing out of name order with a 'grado' course and a course
\* of a lower-case name, all Subjects put and processed.
C13_Witness ==
    /\ coord = "released"
    /\ courses.listed = <<TitleLower, TitleGrado, TitleCalculo>>
    /\ courses.put = <<<<"Calculo">>, <<"algebra">>>>
    /\ created = 2

\* Reached: the marker is missing from a page that lists courses.
C13_WitnessExit ==
    /\ coord = "exited"
    /\ Len(courses.listed) = MaxCourses

----------------------------------------------------------------------------
(***************************************************************************)
(* The claims of Resource.download's other branches.                       *)
(***************************************************************************)
\* The attempt parsed an HTML body in which none of the three selectors
\* gives a url: no object, no iframe, no workaround container with a link.
HtmlMiss(rec) ==
    /\ rec.link.kind = "Resource"
    /\ rec.eff.branch = "html"
    /\ rec.resp.page.object = <<>>
    /\ rec.resp.page.iframe = <<>>
    /\ rec.resp.page.workaround # "link"

\* C14: when a Resource's HTML body matches none of the three selectors the
\* body is dumped to a diagnostic file, no child is put and no exception
\* leaves download.
C14_HtmlMissDumped ==
    \A i \in 1..Len(last) :
        HtmlMiss(last[i])
        => /\ last[i].eff.dump
           /\ last[i].eff.children = <<>>
           /\ last[i].eff.exc = "none"

\* The attempt was a Resource's and its response has a 3xx status and a
\* Location header.
Redirected(rec) ==
    /\ rec.link.kind = "Resource"
    /\ rec.eff.branch # "request"
    /\ rec.resp.status \in 300..399
    /\ rec.resp.location # <<>>

\* C15: for every Resource response with a 3xx status the Link's url becomes
\* the value of the Location header and the request is issued again; the
\* response is neither saved, nor parsed as HTML, nor dropped.
C15_RedirectFollowed ==
    \A i \in 1..Len(last) :
        Redirected(last[i])
        => /\ last[i].eff.branch = "redirect"
           /\ last[i].eff.again
           /\ last[i].eff.link.url = last[i].resp.location[1]
           /\ last[i].eff.exc = "none"
           /\ last[i].eff.children = <<>>
           /\ ~last[i].eff.dump
           /\ NothingSaved(last[i])

\* The attempt was a Resource's; its response is neither a 404 nor a 3xx
\* and its content type is outside the recognized set, or is missing.
Unrecognized(rec) ==
    /\ rec.link.kind = "Resource"
    /\ rec.eff.branch # "request"
    /\ rec.resp.status # 404
    /\ rec.resp.status \notin 300..399
    /\ \/ rec.resp.ctype = <<>>
       \/ /\ rec.resp.ctype # <<>>
          /\ SavedType(rec.resp.ctype[1]) = "none"
          /\ ~Contains(rec.resp.ctype[1], HtmlMarker)

\* C16: a Resource whose non-404, non-redirect response has a content type
\* outside the recognized set, or no Content-Type header, is dropped:
\* download returns without raising, nothing is saved, no child is put and
\* the cache is unchanged.
C16_UnrecognizedDropped ==
    \A i \in 1..Len(last) :
        Unrecognized(last[i])
        => /\ last[i].eff.exc = "none"
           /\ ~last[i].eff.again
           /\ last[i].eff.children = <<>>
           /\ NothingSaved(last[i])

\* C17: a Resource whose response status is 404 is dropped whatever its
\* content type: download returns without saving, without putting a child,
\* without following a redirect, and the cache, the filepath and the
\* downloads log are as they were.
C17_NotFoundDropped ==
    \A i \in 1..Len(last) :
        (/\ last[i].link.kind = "Resource"
         /\ last[i].eff.branch # "request"
         /\ last[i].resp.status = 404)
        => /\ last[i].eff.branch = "drop404"
           /\ last[i].eff.exc = "none"
           /\ ~last[i].eff.again
           /\ last[i].eff.children = <<>>
           /\ ~last[i].eff.dump
           /\ NothingSaved(last[i])
           /\ last[i].eff.link = last[i].link
           /\ REAL_FILE_CACHE = last[i].cache
           /\ downloads = last[i].downloads
           /\ disk = last[i].disk

\* Reached: after a file was saved, a 404 whose content type is
\* application/pdf was dropped.
C17_Witness ==
    /\ last # <<>>
    /\ last[1].link.kind = "Resource"
    /\ last[1].resp.status = 404
    /\ last[1].resp.ctype = <<CTypePdf>>
    /\ last[1].eff.branch = "drop404"
    /\ last[1].cache # <<>>
    /\ last[1].downloads # <<>>
    /\ cur = <<>>

----------------------------------------------------------------------------
(***************************************************************************)
(* The claims of the cache's values and of the downloads log.              *)
(***************************************************************************)
\* C18: in every reachable state each cache entry's value is the length of
\* the last response saved to that path: the Content-Length header when the
\* response had one, else the byte count of its body.
C18_CacheValue ==
    \A i \in 1..Len(last) :
        \A q \in DOMAIN REAL_FILE_CACHE :
            /\ q \in DOMAIN LengthsAfter(last[i])
            /\ REAL_FILE_CACHE[q] = LengthsAfter(last[i])[q]

\* How the download() of the attempt ended, as run() sees it.
EndingOf(rec) == IF rec.eff.exc = "none" THEN "return" ELSE rec.eff.exc

\* C19: when the write of a save fails with a permission error, the error
\* is caught inside the save, download returns normally, no download record
\* is appended for the file, and the unit counts as processed: run() returns
\* to the worker.
C19_PermissionNonFatal ==
    \A i \in 1..Len(last) :
        last[i].eff.denied
        => /\ last[i].eff.exc = "none"
           /\ ~last[i].eff.again
           /\ last[i].eff.record = <<>>
           /\ downloads = last[i].downloads
           /\ disk = last[i].disk
           /\ run(last[i].link.kind, EndingOf(last[i])) = "returned"

\* C20: the downloads log is append-only and gets exactly one record
\* (subject name, file basename) per save that wrote its bytes: after every
\* attempt the log is the log before it, followed by the record of the file
\* when the attempt wrote it and by nothing when the save was an unchanged
\* no-op, failed to write, or did not take place.
C20_DownloadsLog ==
    /\ last = <<>> => downloads = <<>>
    /\ \A i \in 1..Len(last) :
          downloads = last[i].downloads \o
              (IF last[i].eff.wrote
               THEN <<[subject |-> SubjectName,
                       file |-> PathBasename(last[i].eff.link.filepath[1])]>>
               ELSE <<>>)

\* Reached: a second save to a path wrote its bytes again and the log holds
\* the record of the first save followed by that of the second.
C20_Witness ==
    /\ last # <<>>
    /\ last[1].eff.decision = "updated"
    /\ last[1].eff.wrote
    /\ Len(last[1].downloads) = 1
    /\ Len(downloads) = 2
    /\ downloads[1] = last[1].downloads[1]
    /\ downloads[2].file = PathBasename(last[1].eff.link.filepath[1])

----------------------------------------------------------------------------
(***************************************************************************)
(* The claim of the filepath.                                              *)
(***************************************************************************)
\* The operations that resolve the filepath when it is not set.
Resolving == {"autoset_filepath", "create_subfolder", "save_response_content"}

\* C21: a Link's filepath is resolved only after a request has produced a
\* response: a resolution without one raises and sets nothing.  Once the
\* filepath is set, no later operation on the Link changes it: further
\* resolutions, create_subfolder, save and a re-issued download leave it.
C21_FilepathInvariant ==
    /\ \A i \in 1..Len(cur) :
          cur[i].link.filepath # <<>> => ~ResponseIsNone(cur[i].resp)
    /\ \A i \in 1..Len(last) :
          /\ last[i].link.filepath # <<>>
                => last[i].eff.link.filepath = last[i].link.filepath
          /\ (last[i].op \in Resolving /\ ResponseIsNone(last[i].resp))
                => /\ last[i].eff.exc = "RuntimeError"
                   /\ last[i].eff.link.filepath = <<>>

\* Reached: the filepath was set, a redirect then gave the Link another url,
\* and the download it re-issued saved the response under the filepath set
\* first, which is not the one a fresh resolution would give.
C21_Witness ==
    /\ last # <<>>
    /\ last[1].op = "download"
    /\ last[1].link.filepath # <<>>
    /\ last[1].link.url = UrlFile
    /\ last[1].eff.wrote
    /\ last[1].eff.link.filepath = last[1].link.filepath
    /\ Autoset_filepath([last[1].link EXCEPT !.filepath = <<>>], last[1].resp).link.filepath
          # last[1].link.filepath

\* Reached: a resolution before any request raised and set nothing.
C21_WitnessNoResponse ==
    /\ last # <<>>
    /\ last[1].op = "create_subfolder"
    /\ ResponseIsNone(last[1].resp)
    /\ last[1].eff.exc = "RuntimeError"
    /\ cur[1].link.filepath = <<>>

----------------------------------------------------------------------------
(***************************************************************************)
(* The claim of make_request.                                              *)
(***************************************************************************)
\* The number of answers of status 408 among the GETs of a request.
Count408(answers) == Cardinality({j \in 1..Len(answers) : answers[j].resp.status = 408})

\* C22: make_request issues the same GET again each time the response is a
\* 408, however many times, and returns only when the latest response is
\* not a 408: it never ends in an exception of its own, the Link's response
\* is that of the last GET, every GET is of the Link's url, and after k
\* answers of 408 and one of another status k + 1 GETs were issued.
C22_Retry408 ==
    /\ \A i \in 1..Len(cur) :
          /\ Count408(cur[i].answers) = Len(cur[i].answers)
          /\ cur[i].answers # <<>> => cur[i].resp = cur[i].answers[Len(cur[i].answers)].resp
    /\ \A i \in 1..Len(last) :
          /\ last[i].exc = "none"
          /\ last[i].resp.status # 408
          /\ last[i].resp = last[i].answers[Len(last[i].answers)].resp
          /\ Len(last[i].answers) = Count408(last[i].answers) + 1
          /\ \A j \in 1..Len(last[i].answers) : last[i].answers[j].url = last[i].link.url

----------------------------------------------------------------------------
(***************************************************************************)
(* The claim of the subfolders along the descent.                          *)
(***************************************************************************)
\* The Forum `child`, put by a listing Forum whose subfolders are `above`,
\* is processed on the response `resp`: its subfolders are those of the
\* listing Forum followed by its own name, and the Resources it puts have
\* the same subfolders.
NestedUnder(above, child, resp) ==
    LET Nested(eff) ==
            /\ eff.link.subfolders = above \o <<secure_filename(child.name)>>
            /\ \A k \in 1..Len(eff.children) :
                  eff.children[k].subfolders = eff.link.subfolders
    IN  Nested(Forum_download(child, resp, REAL_FILE_CACHE, forums_subfolders))

\* C23: the subfolders of a Link list, in descent order, the folders and
\* forums through which it was discovered: a Forum put by a Forum listing
\* page has, once processed, the listing Forum's subfolders followed by its
\* own name (the forums root once, first), and so have the attachment
\* Resources of the discussion; the Resources of a Folder or a Delivery have
\* the subfolders of the Link that listed them.
C23_SubfoldersAccumulate ==
    \A i \in 1..Len(last) :
        /\ last[i].eff.branch \in {"folder", "delivery", "discuss"}
              => \A k \in 1..Len(last[i].eff.children) :
                    last[i].eff.children[k].subfolders = last[i].eff.link.subfolders
        /\ last[i].eff.branch = "view"
              => \A k \in 1..Len(last[i].eff.children) :
                    \A resp \in ListingResponses(ForumItems, MaxForumItems, {<<>>}) :
                        NestedUnder(last[i].eff.link.subfolders, last[i].eff.children[k], resp)

----------------------------------------------------------------------------
(***************************************************************************)
(* The claims left implicit.                                               *)
(***************************************************************************)
\* C24: in every reachable state a filepath is a key of the cache only if
\* bytes were written to it: a save whose write fails with a permission
\* error leaves no cache entry behind, so that a later save of the same
\* content to the path is not skipped as unchanged.
C24_CachedOnlyIfWritten ==
    /\ \A q \in DOMAIN REAL_FILE_CACHE : q \in DOMAIN disk
    /\ \A i \in 1..Len(last) :
          (last[i].eff.denied /\ last[i].eff.link.filepath[1] \notin DOMAIN last[i].cache)
          => last[i].eff.link.filepath[1] \notin DOMAIN REAL_FILE_CACHE

\* C25: after the de-duplication of a Delivery, the names of the Resources
\* put from one page are pairwise distinct, whatever the names of the
\* attachments, also when a name that occurs once has the form of a
\* generated one.
C25_DeliveryNamesDistinct ==
    \A i \in 1..Len(last) :
        (last[i].eff.branch = "delivery" /\ last[i].eff.exc = "none")
        => \A j, k \in 1..Len(last[i].eff.children) :
              last[i].eff.children[j].name = last[i].eff.children[k].name => j = k

====
